---- MODULE Spec2Model ----
(***************************************************************************)
(* Model of src/main.py: the push-to-talk firmware loop of the AI chat box *)
(* (MicroPython, Raspberry Pi Pico W).  The main loop waits for the        *)
(* button, records a clip into rec.wav (record_and_save), decides speech   *)
(* or silence from the energy of the leading window, uploads the clip      *)
(* (send_audio_to_server), plays the reply (play_wav) and waits for the    *)
(* button to be released.                                                  *)
(*                                                                         *)
(* Platform facts the model rests on:                                      *)
(*  - floats are IEEE-754 binary32, round to nearest even (MicroPython's   *)
(*    rp2 port); they are modelled bit-exactly as m * 2^e with a 24-bit    *)
(*    significand and gradual underflow below 2^-126.  Only non-negative  *)
(*    floats occur in the program, and none reaches the overflow range.    *)
(*  - files are byte sequences with a position; write overwrites in place  *)
(*    and extends at the end.                                              *)
(*  - struct.pack('<h', v) of a value outside the signed 16-bit range and  *)
(*    int.to_bytes of a value that does not fit depend on the build: some  *)
(*    keep the low bytes, some raise.  Both outcomes are modelled.         *)
(***************************************************************************)
EXTENDS Integers, Sequences, FiniteSets, TLC

VARIABLES
    pc,               \* position of the program (see the actions)
    button,           \* TRUE = pressed, i.e. button.value() == 0 (pull-up)
    led,              \* on-board LED
    ENERGY_THRESHOLD, \* the global adaptive threshold (int at start, then float)
    recFile,          \* bytes of rec.wav
    dc_offset,        \* record_and_save: local dc_offset
    sample_count,     \* record_and_save: local sample_count
    elapsed,          \* record_and_save: ticks_diff(ticks_ms(), start), in ms
    mic,              \* the signal the ADC delivers during this recording
    clock,            \* the clock of this recording: [lag, step] in ms
    avg_energy,       \* record_and_save: local avg_energy (a float)
    speech_detected,  \* main loop: result of record_and_save
    s,                \* main loop: result of send_audio_to_server
    respFile,         \* bytes of response.wav
    rpos,             \* play_wav: read position in response.wav
    duty,             \* sequence of duty values driven to the PWM by this play_wav
    log,              \* messages printed since the button press
    sessions,         \* number of recordings started
    posts,            \* number of urequests.post calls of this session
    plays,            \* number of play_wav calls of this session
    evals,            \* number of threshold updates since start
    recordings,       \* number of record_and_save calls that returned
    status,           \* send_audio_to_server: response.status_code (0: no response)
    ended,            \* number of sessions that returned to the idle poll
    rec_open,         \* record_and_save: the handle f of rec.wav is open
    hdr_writes,       \* record_and_save: writes of f at offset 0 in this call
    held,             \* the press that started the last session is still held
    arg,              \* argument of the function under test (function specs)
    ret               \* its result

vars == <<pc, button, led, ENERGY_THRESHOLD, recFile, dc_offset, sample_count,
          elapsed, mic, clock, avg_energy, speech_detected, s, respFile, rpos,
          duty, log, sessions, posts, plays, evals, recordings, status, ended,
          rec_open, hdr_writes, held, arg, ret>>

----------------------------------------------------------------------------
(* Program constants, src/main.py lines 23-35. *)
SAMPLE_RATE == 8000
BITS_PER_SAMPLE == 16
CHANNELS == 1
RECORD_DURATION == 5
DC_OFFSET_SAMPLES == 100
ENERGY_WINDOW == 50
INITIAL_ENERGY_THRESHOLD == 500
HEADER_LEN == 44

(* Bounds of the model: the sessions of Spec, and the silent sessions      *)
(* that precede the last session of SpecQuiet.                             *)
MaxSessions == 2
QuietSessions == 1030

----------------------------------------------------------------------------
(* IEEE-754 binary32 arithmetic on non-negative values.  A float is        *)
(* [m, e] with value m * 2^e: 2^23 <= m < 2^24 (normal), or 0 < m < 2^23   *)
(* with e = MIN_EXP (subnormal), or m = 0 for zero.                        *)
MANT_BITS == 24
MIN_EXP == -149

FZero == [m |-> 0, e |-> 0]

RECURSIVE BitLen(_)
BitLen(n) == IF n = 0 THEN 0 ELSE 1 + BitLen(n \div 2)

(* Round (q + f) * 2^e to a float, where 0 <= f < 1 and sticky says f > 0; *)
(* when sticky, q has more than MANT_BITS bits.  Round half to even; the   *)
(* exponent of the result is not below MIN_EXP (gradual underflow).        *)
FRound(q, e, sticky) ==
    LET bits == BitLen(q)
        ex   == IF e + bits - MANT_BITS > MIN_EXP
                THEN e + bits - MANT_BITS ELSE MIN_EXP
        sh   == ex - e
    IN
    IF q = 0 THEN FZero
    ELSE IF sh <= 0
    THEN [m |-> q * 2^(-sh), e |-> ex]
    ELSE IF sh > bits THEN FZero
    ELSE LET m0   == q \div 2^sh
             rem  == q % 2^sh
             half == 2^(sh - 1)
             up   == rem > half \/ (rem = half /\ (sticky \/ m0 % 2 = 1))
             m1   == IF up THEN m0 + 1 ELSE m0
         IN  IF m1 = 0 THEN FZero
             ELSE IF m1 = 2^MANT_BITS
             THEN [m |-> 2^(MANT_BITS - 1), e |-> ex + 1]
             ELSE [m |-> m1, e |-> ex]

RECURSIVE FDivBits(_, _, _, _)
FDivBits(q, r, d, e) ==
    IF r = 0 \/ q >= 2^MANT_BITS THEN FRound(q, e, r # 0)
    ELSE IF 2 * r >= d THEN FDivBits(2 * q + 1, 2 * r - d, d, e - 1)
                       ELSE FDivBits(2 * q, 2 * r, d, e - 1)

(* n / d of two ints, n >= 0, d > 0: Python's true division. *)
FDivInt(n, d) == FDivBits(n \div d, n % d, d, 0)

(* int -> float *)
FFromInt(n) == FRound(n, 0, FALSE)

(* a subnormal operand with its significand shifted up to MANT_BITS bits *)
FNorm(x) ==
    LET k == MANT_BITS - BitLen(x.m) IN [m |-> x.m * 2^k, e |-> x.e - k]

FMul(x, y) ==
    IF x.m = 0 \/ y.m = 0 THEN FZero
    ELSE LET xn  == FNorm(x)
             yn  == FNorm(y)
             a   == xn.m \div 4096
             b   == xn.m % 4096
             c   == yn.m \div 4096
             d   == yn.m % 4096
             mid == a * d + b * c
             lo0 == (mid % 4096) * 4096 + b * d
             hi  == a * c + mid \div 4096 + lo0 \div 2^24
             lo  == lo0 % 2^24
         IN  FRound(hi * 4 + lo \div 2^22, xn.e + yn.e + 22, lo % 2^22 # 0)

FLt(x, y) ==
    IF y.m = 0 THEN FALSE
    ELSE IF x.m = 0 THEN TRUE
    ELSE x.e < y.e \/ (x.e = y.e /\ x.m < y.m)

FAdd(x, y) ==
    IF x.m = 0 THEN y
    ELSE IF y.m = 0 THEN x
    ELSE LET big   == IF x.e >= y.e THEN x ELSE y
             small == IF x.e >= y.e THEN y ELSE x
             d     == big.e - small.e
             X     == big.m * 8
             Y     == IF d >= 27 THEN 0 ELSE (small.m * 8) \div 2^d
             st    == IF d >= 27 THEN TRUE ELSE (small.m * 8) % 2^d # 0
         IN  FRound(X + Y, big.e - 3, st)

(* x - y for x >= y >= 0 *)
FSub(x, y) ==
    IF y.m = 0 THEN x
    ELSE LET d  == x.e - y.e
             X  == x.m * 8
             Y  == IF d >= 27 THEN 0 ELSE (y.m * 8) \div 2^d
             st == IF d >= 27 THEN TRUE ELSE (y.m * 8) % 2^d # 0
         IN  IF st THEN FRound(X - Y - 1, x.e - 3, TRUE)
                   ELSE FRound(X - Y, x.e - 3, FALSE)

(* int(x): truncation *)
FTrunc(x) ==
    IF x.e >= 0 THEN x.m * 2^(x.e)
    ELSE IF -(x.e) >= MANT_BITS THEN 0
    ELSE x.m \div 2^(-(x.e))

(* ADAPT_RATE = 0.1: the float nearest to 1/10. *)
ADAPT_RATE == FDivInt(1, 10)

(* 1 - ADAPT_RATE, computed at run time in line 140. *)
ONE_MINUS_RATE == FSub(FFromInt(1), ADAPT_RATE)

----------------------------------------------------------------------------
(* Bytes, struct and int.to_bytes. *)
Byte == 0..255

Min(a, b) == IF a < b THEN a ELSE b
Max(a, b) == IF a > b THEN a ELSE b

(* f.write(bytes) at position pos of a file: overwrite, extend at the end *)
WriteAt(f, pos, bytes) ==
    [i \in 1..Max(Len(f), pos + Len(bytes)) |->
        IF i > pos /\ i <= pos + Len(bytes) THEN bytes[i - pos] ELSE f[i]]

(* Integers too wide for one word are kept as <<hi, lo>> = hi * 65536 + lo. *)
WMul(n, k) ==
    LET lo == (n % 65536) * k
    IN  <<(n \div 65536) * k + lo \div 65536, lo % 65536>>

WAdd(w, c) ==
    LET lo == w[2] + c
    IN  <<w[1] + lo \div 65536, lo % 65536>>

(* x.to_bytes(4, 'little') for x = <<hi, lo>>, keeping the low four bytes *)
to_bytes4(w) ==
    <<w[2] % 256, w[2] \div 256, w[1] % 256, (w[1] \div 256) % 256>>

(* x.to_bytes(2, 'little') *)
to_bytes2(x) == <<x % 256, (x \div 256) % 256>>

Fits4(w) == w[1] < 65536

(* int.from_bytes(b, 'little') of four bytes, as <<hi, lo>> *)
from_bytes4(b) == <<b[4] * 256 + b[3], b[2] * 256 + b[1]>>

InInt16(v) == v >= -32768 /\ v <= 32767

(* struct.pack('<h', v), keeping the low two bytes of the two's complement *)
pack_h(v) == to_bytes2(v % 65536)

(* struct.unpack('<h', b)[0] *)
unpack_h(b) ==
    LET u == b[1] + 256 * b[2] IN IF u >= 32768 THEN u - 65536 ELSE u

----------------------------------------------------------------------------
(* create_wav_header, lines 69-89. *)
block_align == CHANNELS * (BITS_PER_SAMPLE \div 8)

data_size(num_samples) == WMul(num_samples, block_align)

(* mutant: the RIFF size counted from the whole file, not from byte 8 *)
riff_size_whole_file(num_samples) == WAdd(data_size(num_samples), 44)

riff_size(num_samples) == WAdd(data_size(num_samples), 36)

(* the 44 bytes the function builds *)
wav_header_bytes(sample_rate, num_samples) ==
    <<82, 73, 70, 70>> \o to_bytes4(riff_size(num_samples))
    \o <<87, 65, 86, 69>> \o <<102, 109, 116, 32>>
    \o to_bytes4(<<0, 16>>) \o to_bytes2(1) \o to_bytes2(CHANNELS)
    \o to_bytes4(WMul(sample_rate, 1))
    \o to_bytes4(WMul(sample_rate, block_align))
    \o to_bytes2(block_align) \o to_bytes2(BITS_PER_SAMPLE)
    \o <<100, 97, 116, 97>> \o to_bytes4(data_size(num_samples))

OverflowError == <<"OverflowError">>

(* The outcomes of create_wav_header: when a size does not fit its four    *)
(* bytes, to_bytes raises or keeps the low bytes, depending on the build.  *)
create_wav_header(sample_rate, num_samples) ==
    IF Fits4(riff_size(num_samples)) /\ Fits4(data_size(num_samples))
    THEN {wav_header_bytes(sample_rate, num_samples)}
    ELSE {wav_header_bytes(sample_rate, num_samples), OverflowError}

----------------------------------------------------------------------------
(* mutant: the span of the samples taken as 65536 *)
duty_of_span_65536(sample) ==
    FTrunc(FMul(FDivInt(sample + 32768, 65536), FFromInt(100)))

(* play_wav, line 188: duty = int((sample + 32768) / 65535 * 100) *)
duty_of(sample) ==
    FTrunc(FMul(FDivInt(sample + 32768, 65535), FFromInt(100)))

(* record_and_save, lines 130-135: the energy of the leading window *)
FramesIn(f) == IF Len(f) <= HEADER_LEN THEN 0 ELSE (Len(f) - HEADER_LEN) \div 2

Frame(f, k) == <<f[HEADER_LEN + 2 * k - 1], f[HEADER_LEN + 2 * k]>>

Abs(v) == IF v < 0 THEN -v ELSE v

RECURSIVE SumAbs(_, _)
SumAbs(f, k) ==
    IF k = 0 THEN 0 ELSE SumAbs(f, k - 1) + Abs(unpack_h(Frame(f, k)))

(* mutant: the loop runs to the end of the file, not over the window *)
energy_sum_whole_clip(f) == SumAbs(f, FramesIn(f))

energy_sum(f) == SumAbs(f, Min(ENERGY_WINDOW, FramesIn(f)))

(* line 137 *)
average_energy(f) == FDivInt(energy_sum(f), ENERGY_WINDOW)

(* mutant: the new threshold is cut to an integer *)
update_threshold_int(threshold, avg) ==
    FFromInt(FTrunc(FAdd(FMul(threshold, ONE_MINUS_RATE), FMul(avg, ADAPT_RATE))))

(* mutant: the old threshold is not scaled down *)
update_threshold_unscaled(threshold, avg) ==
    FAdd(threshold, FMul(avg, ADAPT_RATE))

(* line 140 *)
update_threshold(threshold, avg) ==
    FAdd(FMul(threshold, ONE_MINUS_RATE), FMul(avg, ADAPT_RATE))

(* mutant: a clip exactly at the threshold counts as silence *)
is_silence_or_equal(avg, threshold) == ~FLt(threshold, avg)

(* line 143: the silence test; the function returns its negation *)
is_silence(avg, threshold) == FLt(avg, threshold)

(* lines 126-147: the analysis of the clip in file f under the threshold   *)
(* given: avg_energy, the new threshold and the value returned             *)
edge_analytics(threshold, f) ==
    LET avg == average_energy(f)
        thr == update_threshold(threshold, avg)
    IN  [avg_energy |-> avg, threshold |-> thr, speech |-> ~is_silence(avg, thr)]

(* mutant: every 2xx code counts as success *)
is_success_2xx(code) == code >= 200 /\ code < 300

(* line 160 *)
is_success(code) == code = 200

----------------------------------------------------------------------------
(* The environment: what the ADC, the clock and the server can deliver.    *)

(* A microphone signal: the 100 calibration readings are 99 times cal[1]   *)
(* and once cal[2]; the first `switch` capture readings are `lead`, the    *)
(* later ones `tail`.  All readings are read_u16 values, 0..65535.         *)
Signal(c1, c2, l, t, sw) ==
    [cal |-> <<c1, c2>>, lead |-> l, tail |-> t, switch |-> sw]

NoSignal == Signal(0, 0, 0, 0, 0)

(* The clock of a recording: `lag` ms pass between start = ticks_ms() and  *)
(* the first test of the loop, `step` ms per iteration.                    *)
Clock(l, st) == [lag |-> l, step |-> st]

NoClock == Clock(0, 0)

Samples52 == Clock(0, 97)      \* the loop runs 52 times
Samples2  == Clock(0, 2500)    \* the loop runs twice
Samples0  == Clock(5000, 97)   \* the loop does not run

(* What one recording meets: a signal and a clock. *)
Recordings ==
    { <<Signal(32768, 32768, 32768, 32768, 0), Samples52>>,   \* samples 0
      <<Signal(32768, 32768, 32768, 32768, 0), Samples0>>,
      <<Signal(32768, 32800, 33268, 33268, 0), Samples52>>,   \* samples 500
      <<Signal(32768, 32800, 33268, 33268, 0), Samples2>>,
      <<Signal(32768, 32768, 33768, 33768, 0), Samples52>>,   \* samples 1000
      <<Signal(32768, 32768, 32768, 33768, 50), Samples52>>,  \* 50 times 0, then 1000
      <<Signal(32768, 32768, 35366, 35366, 0), Samples52>>,   \* samples 2598
      <<Signal(32768, 32768, 33492, 32782, 49), Samples52>>,  \* 49 times 724, then 14
      <<Signal(0, 0, 65535, 65535, 0), Samples2>> }           \* 65535: not an int16

(* mic.read_u16() of the k-th capture reading, k = 0, 1, ... *)
read_u16(sig, k) == IF k < sig.switch THEN sig.lead ELSE sig.tail

(* The bodies a server may answer with: two frames; one frame and a        *)
(* trailing odd byte.                                                      *)
ResponseBodies ==
    { wav_header_bytes(SAMPLE_RATE, 2) \o pack_h(-32768) \o pack_h(32767),
      wav_header_bytes(SAMPLE_RATE, 1) \o pack_h(-32440) \o <<7>> }

StatusCodes == {200, 201, 500}

----------------------------------------------------------------------------
Init ==
    /\ pc = "Boot"
    /\ button = FALSE
    /\ led = FALSE
    /\ ENERGY_THRESHOLD = FFromInt(INITIAL_ENERGY_THRESHOLD)
    /\ recFile = <<>>
    /\ dc_offset = 0
    /\ sample_count = 0
    /\ elapsed = 0
    /\ mic = NoSignal
    /\ clock = NoClock
    /\ avg_energy = FZero
    /\ speech_detected = FALSE
    /\ s = FALSE
    /\ respFile = <<>>
    /\ rpos = 0
    /\ duty = <<>>
    /\ log = <<>>
    /\ sessions = 0
    /\ posts = 0
    /\ plays = 0
    /\ evals = 0
    /\ recordings = 0
    /\ status = 0
    /\ ended = 0
    /\ rec_open = FALSE
    /\ hdr_writes = 0
    /\ held = FALSE
    /\ arg = <<"none", 0>>
    /\ ret = <<"none">>

fnVars == <<arg, ret>>
recVars == <<dc_offset, sample_count, elapsed, mic, clock, avg_energy,
             rec_open, hdr_writes>>
playVars == <<respFile, rpos, duty>>
countVars == <<sessions, posts, plays, evals, recordings, status, ended>>

(* connect_wifi(), lines 41-63 and 197: the LED ends on iff connected *)
ConnectWifi ==
    /\ pc = "Boot"
    /\ \E connected \in BOOLEAN : led' = connected
    /\ pc' = "Idle"
    /\ log' = <<"System ready">>
    /\ UNCHANGED <<button, ENERGY_THRESHOLD, recFile, recVars, speech_detected,
                   s, playVars, countVars, held, fnVars>>

(* mutant: a press during a session starts a new recording at once *)
ButtonChange_restarts ==
    /\ pc \notin {"Boot", "Crashed", "Fn"}
    /\ button' = ~button
    /\ IF ~button /\ pc \notin {"Idle", "DebounceWait"} /\ sessions < MaxSessions
       THEN pc' = "Calibrate" /\ sessions' = sessions + 1
       ELSE UNCHANGED <<pc, sessions>>
    /\ UNCHANGED <<led, ENERGY_THRESHOLD, recFile, recVars, speech_detected,
                   s, playVars, log, posts, plays, evals, recordings, status,
                   ended, held, fnVars>>

(* the user presses or releases the button; either way the press that    *)
(* started the last session is no longer the one held                      *)
ButtonChange ==
    /\ pc \notin {"Boot", "Crashed", "Fn"}
    /\ button' = ~button
    /\ held' = FALSE
    /\ UNCHANGED <<pc, led, ENERGY_THRESHOLD, recFile, recVars, speech_detected,
                   s, playVars, log, countVars, fnVars>>

(* lines 200-203 and 218: one poll of the button; the model follows the   *)
(* program for `limit` sessions                                            *)
PollUpTo(limit) ==
    /\ pc = "Idle"
    /\ IF button
       THEN /\ sessions < limit
            /\ led' = TRUE
            /\ log' = <<"Recording...">>
            /\ pc' = "Calibrate"
            /\ sessions' = sessions + 1
            /\ posts' = 0
            /\ plays' = 0
            /\ status' = 0
            /\ duty' = <<>>
            /\ rpos' = 0
            /\ held' = TRUE
            /\ UNCHANGED <<evals, recordings, ended>>
       ELSE UNCHANGED <<led, log, pc, countVars, duty, rpos, held>>
    /\ UNCHANGED <<button, ENERGY_THRESHOLD, recFile, recVars, speech_detected,
                   s, respFile, fnVars>>

Poll == PollUpTo(MaxSessions)

(* line 99: dc_offset = sum of 100 readings // 100, for a recording that   *)
(* meets one of the signals and clocks of `recs`                           *)
CalibrateFrom(recs) ==
    /\ pc = "Calibrate"
    /\ \E r \in recs :
          /\ mic' = r[1]
          /\ clock' = r[2]
          /\ dc_offset' = (r[1].cal[1] * (DC_OFFSET_SAMPLES - 1) + r[1].cal[2])
                              \div DC_OFFSET_SAMPLES
    /\ pc' = "Open"
    /\ UNCHANGED <<button, led, ENERGY_THRESHOLD, recFile, sample_count, elapsed,
                   avg_energy, rec_open, hdr_writes, speech_detected, s,
                   playVars, log, countVars, held, fnVars>>

Calibrate == CalibrateFrom(Recordings)

(* mutant: the placeholder declares the samples the duration should give *)
Open_expected_count ==
    /\ pc = "Open"
    /\ \E h \in create_wav_header(SAMPLE_RATE, SAMPLE_RATE * RECORD_DURATION) :
          /\ recFile' = WriteAt(<<>>, 0, h)
          /\ rec_open' = TRUE
          /\ hdr_writes' = 1
          /\ sample_count' = 0
          /\ elapsed' = clock.lag
          /\ pc' = "Capture"
          /\ UNCHANGED log
    /\ UNCHANGED <<button, led, ENERGY_THRESHOLD, dc_offset, mic, clock, avg_energy,
                   speech_detected, s, playVars, countVars, held, fnVars>>

(* lines 101-105: open 'wb' truncates, the placeholder header is written *)
Open ==
    /\ pc = "Open"
    /\ \E h \in create_wav_header(SAMPLE_RATE, 0) :
          IF h = OverflowError
          THEN /\ pc' = "Crashed"
               /\ log' = Append(log, "Traceback")
               /\ recFile' = <<>>
               /\ rec_open' = FALSE
               /\ hdr_writes' = 0
               /\ UNCHANGED <<sample_count, elapsed>>
          ELSE /\ recFile' = WriteAt(<<>>, 0, h)
               /\ rec_open' = TRUE
               /\ hdr_writes' = 1
               /\ sample_count' = 0
               /\ elapsed' = clock.lag
               /\ pc' = "Capture"
               /\ UNCHANGED log
    /\ UNCHANGED <<button, led, ENERGY_THRESHOLD, dc_offset, mic, clock, avg_energy,
                   speech_detected, s, playVars, countVars, held, fnVars>>

(* lines 108-112, one iteration: read, subtract, pack, write, count, sleep. *)
(* A sample outside int16 is written with its low two bytes or raises.     *)
CaptureSample ==
    /\ pc = "Capture"
    /\ elapsed < RECORD_DURATION * 1000
    /\ LET sample == read_u16(mic, sample_count) - dc_offset IN
       \/ /\ recFile' = WriteAt(recFile, Len(recFile), pack_h(sample))
          /\ sample_count' = sample_count + 1
          /\ elapsed' = elapsed + clock.step
          /\ UNCHANGED <<pc, log, rec_open>>
       \/ /\ ~InInt16(sample)
          /\ pc' = "Crashed"
          /\ log' = Append(log, "Traceback")
          /\ rec_open' = FALSE
          /\ UNCHANGED <<recFile, sample_count, elapsed>>
    /\ UNCHANGED <<button, led, ENERGY_THRESHOLD, dc_offset, mic, clock, hdr_writes,
                   avg_energy, speech_detected, s, playVars, countVars, held, fnVars>>

(* mutant: the header is not rewritten after the loop *)
CaptureTimeUp_no_backpatch ==
    /\ pc = "Capture"
    /\ elapsed >= RECORD_DURATION * 1000
    /\ pc' = "Analyze"
    /\ UNCHANGED <<button, led, ENERGY_THRESHOLD, recFile, recVars,
                   speech_detected, s, playVars, log, countVars, held, fnVars>>

(* line 108: the duration has elapsed *)
CaptureTimeUp ==
    /\ pc = "Capture"
    /\ elapsed >= RECORD_DURATION * 1000
    /\ pc' = "Backpatch"
    /\ UNCHANGED <<button, led, ENERGY_THRESHOLD, recFile, recVars,
                   speech_detected, s, playVars, log, countVars, held, fnVars>>

(* mutant: the f.seek(0) is missing, the header lands behind the samples *)
Backpatch_no_seek ==
    /\ pc = "Backpatch"
    /\ \E h \in create_wav_header(SAMPLE_RATE, sample_count) :
          IF h = OverflowError
          THEN /\ pc' = "Crashed"
               /\ log' = Append(log, "Traceback")
               /\ rec_open' = FALSE
               /\ UNCHANGED <<recFile, hdr_writes>>
          ELSE /\ recFile' = WriteAt(recFile, Len(recFile), h)
               /\ pc' = "Analyze"
               /\ UNCHANGED <<log, rec_open, hdr_writes>>
    /\ UNCHANGED <<button, led, ENERGY_THRESHOLD, dc_offset, sample_count,
                   elapsed, mic, clock, avg_energy, speech_detected, s,
                   playVars, countVars, held, fnVars>>

(* lines 115-116: f.seek(0); f.write(header of sample_count) *)
Backpatch ==
    /\ pc = "Backpatch"
    /\ \E h \in create_wav_header(SAMPLE_RATE, sample_count) :
          IF h = OverflowError
          THEN /\ pc' = "Crashed"
               /\ log' = Append(log, "Traceback")
               /\ rec_open' = FALSE
               /\ UNCHANGED <<recFile, hdr_writes>>
          ELSE /\ recFile' = WriteAt(recFile, 0, h)
               /\ hdr_writes' = hdr_writes + 1
               /\ pc' = "Analyze"
               /\ UNCHANGED <<log, rec_open>>
    /\ UNCHANGED <<button, led, ENERGY_THRESHOLD, dc_offset, sample_count,
                   elapsed, mic, clock, avg_energy, speech_detected, s,
                   playVars, countVars, held, fnVars>>

(* mutant: the threshold update sits inside the silence branch, a clip     *)
(* returned as speech leaves the threshold alone                           *)
Analyze_updates_on_silence ==
    /\ pc = "Analyze"
    /\ LET avg == average_energy(recFile)
           sil == is_silence(avg, ENERGY_THRESHOLD)
       IN  /\ avg_energy' = avg
           /\ ENERGY_THRESHOLD' = IF sil THEN update_threshold(ENERGY_THRESHOLD, avg)
                                        ELSE ENERGY_THRESHOLD
           /\ evals' = IF sil THEN evals + 1 ELSE evals
           /\ speech_detected' = ~sil
           /\ log' = IF sil THEN Append(log, "Silence predicted") ELSE log
    /\ recordings' = recordings + 1
    /\ pc' = "Returned"
    /\ dc_offset' = 0
    /\ sample_count' = 0
    /\ elapsed' = 0
    /\ clock' = NoClock
    /\ mic' = NoSignal
    /\ rec_open' = FALSE
    /\ UNCHANGED <<button, led, recFile, hdr_writes, s, playVars, sessions, posts, plays,
                   status, ended, held, fnVars>>

(* lines 126-147: energy of the leading window, threshold update, verdict; *)
(* the function returns and line 205 assigns speech_detected.              *)
Analyze ==
    /\ pc = "Analyze"
    /\ LET r == edge_analytics(ENERGY_THRESHOLD, recFile)
       IN  /\ avg_energy' = r.avg_energy
           /\ ENERGY_THRESHOLD' = r.threshold
           /\ speech_detected' = r.speech
           /\ log' = IF r.speech THEN log ELSE Append(log, "Silence predicted")
    /\ evals' = evals + 1
    /\ recordings' = recordings + 1
    /\ pc' = "Returned"
    /\ dc_offset' = 0
    /\ sample_count' = 0
    /\ elapsed' = 0
    /\ clock' = NoClock
    /\ mic' = NoSignal
    /\ rec_open' = FALSE
    /\ UNCHANGED <<button, led, recFile, hdr_writes, s, playVars, sessions, posts, plays,
                   status, ended, held, fnVars>>

(* an OSError of open, write, seek or read on rec.wav inside               *)
(* record_and_save: nothing catches it (lines 95-147, 200-218)             *)
StorageError ==
    /\ pc \in {"Open", "Capture", "Backpatch", "Analyze"}
    /\ pc' = "Crashed"
    /\ log' = Append(log, "Traceback")
    /\ rec_open' = FALSE
    /\ UNCHANGED <<button, led, ENERGY_THRESHOLD, recFile, dc_offset, sample_count,
                   elapsed, mic, clock, avg_energy, hdr_writes,
                   speech_detected, s, playVars, countVars, held, fnVars>>

(* mutant: the led.off() of line 207 is missing *)
LedOff_missing ==
    /\ pc = "Returned"
    /\ log' = Append(log, "Recording complete.")
    /\ pc' = "Deciding"
    /\ UNCHANGED <<button, led, ENERGY_THRESHOLD, recFile, recVars, speech_detected,
                   s, playVars, countVars, held, fnVars>>

(* lines 207-208 *)
LedOff ==
    /\ pc = "Returned"
    /\ led' = FALSE
    /\ log' = Append(log, "Recording complete.")
    /\ pc' = "Deciding"
    /\ UNCHANGED <<button, ENERGY_THRESHOLD, recFile, recVars, speech_detected,
                   s, playVars, countVars, held, fnVars>>

(* mutant: the verdict is not tested *)
Decide_always_sends ==
    /\ pc = "Deciding"
    /\ pc' = "Transmitting"
    /\ UNCHANGED <<button, led, ENERGY_THRESHOLD, recFile, recVars,
                   speech_detected, s, playVars, log, countVars, held, fnVars>>

(* line 210 *)
Decide ==
    /\ pc = "Deciding"
    /\ pc' = IF speech_detected THEN "Transmitting" ELSE "DebounceWait"
    /\ UNCHANGED <<button, led, ENERGY_THRESHOLD, recFile, recVars,
                   speech_detected, s, playVars, log, countVars, held, fnVars>>

(* lines 153-170 and 211-212: send_audio_to_server and the test of s *)
Transmit ==
    /\ pc = "Transmitting"
    /\ \/ \* open('rec.wav') raises
          /\ s' = FALSE
          /\ log' = Append(log, "Error sending file")
          /\ UNCHANGED <<posts, status, respFile>>
       \/ \* urequests.post raises
          /\ s' = FALSE
          /\ posts' = posts + 1
          /\ log' = Append(log, "Error sending file")
          /\ UNCHANGED <<status, respFile>>
       \/ \* the server answers
          \E code \in StatusCodes, body \in ResponseBodies :
             /\ posts' = posts + 1
             /\ status' = code
             /\ IF is_success(code)
                THEN \/ /\ respFile' = body
                        /\ s' = TRUE
                        /\ log' = Append(log, "Response saved.")
                     \/ \* writing response.wav raises
                        /\ respFile' = <<>>
                        /\ s' = FALSE
                        /\ log' = Append(log, "Error sending file")
                ELSE /\ s' = FALSE
                     /\ log' = Append(log, "Server error")
                     /\ UNCHANGED respFile
    /\ pc' = IF s' THEN "Playing" ELSE "DebounceWait"
    /\ UNCHANGED <<button, led, ENERGY_THRESHOLD, recFile, recVars,
                   speech_detected, rpos, duty, sessions, plays, evals,
                   recordings, ended, held, fnVars>>

(* lines 176-181: open response.wav, skip 44 bytes, set up the PWM *)
PlayOpen ==
    /\ pc = "Playing"
    /\ plays' = plays + 1
    /\ \/ /\ rpos' = Min(HEADER_LEN, Len(respFile))
          /\ duty' = <<>>
          /\ pc' = "PlayLoop"
          /\ UNCHANGED log
       \/ \* open, read or the PWM raises: caught at line 190
          /\ log' = Append(log, "Playback error")
          /\ pc' = "DebounceWait"
          /\ UNCHANGED <<rpos, duty>>
    /\ UNCHANGED <<button, led, ENERGY_THRESHOLD, recFile, recVars,
                   speech_detected, s, respFile, sessions, posts, evals,
                   recordings, status, ended, held, fnVars>>

(* mutant: a partial frame is padded with a zero byte and rendered *)
PlayFrame_pads_partial ==
    /\ pc = "PlayLoop"
    /\ LET avail == Len(respFile) - rpos IN
       IF avail = 0
       THEN /\ pc' = "DebounceWait"
            /\ UNCHANGED <<rpos, duty, log>>
       ELSE IF avail = 1
       THEN /\ duty' = Append(duty, duty_of(unpack_h(<<respFile[rpos + 1], 0>>)))
            /\ rpos' = rpos + 1
            /\ UNCHANGED <<pc, log>>
       ELSE \/ /\ duty' = Append(duty,
                     duty_of(unpack_h(<<respFile[rpos + 1], respFile[rpos + 2]>>)))
               /\ rpos' = rpos + 2
               /\ UNCHANGED <<pc, log>>
            \/ /\ pc' = "DebounceWait"
               /\ log' = Append(log, "Playback error")
               /\ UNCHANGED <<rpos, duty>>
    /\ UNCHANGED <<button, led, ENERGY_THRESHOLD, recFile, recVars,
                   speech_detected, s, respFile, countVars, held, fnVars>>

(* lines 183-189, one iteration *)
PlayFrame ==
    /\ pc = "PlayLoop"
    /\ LET avail == Len(respFile) - rpos IN
       IF avail = 0
       THEN \* not frame: break
            /\ pc' = "DebounceWait"
            /\ UNCHANGED <<rpos, duty, log>>
       ELSE IF avail = 1
       THEN \* struct.unpack of one byte raises: caught at line 190
            /\ pc' = "DebounceWait"
            /\ rpos' = rpos + 1
            /\ log' = Append(log, "Playback error")
            /\ UNCHANGED duty
       ELSE \/ /\ duty' = Append(duty,
                     duty_of(unpack_h(<<respFile[rpos + 1], respFile[rpos + 2]>>)))
               /\ rpos' = rpos + 2
               /\ UNCHANGED <<pc, log>>
            \/ \* duty_u16 or read raises: caught at line 190
               /\ pc' = "DebounceWait"
               /\ log' = Append(log, "Playback error")
               /\ UNCHANGED <<rpos, duty>>
    /\ UNCHANGED <<button, led, ENERGY_THRESHOLD, recFile, recVars,
                   speech_detected, s, respFile, countVars, held, fnVars>>

(* mutant: the test of the wait loop is inverted, it waits while released *)
DebounceWait_inverted ==
    /\ pc = "DebounceWait"
    /\ IF ~button
       THEN UNCHANGED <<pc, ended>>
       ELSE pc' = "Idle" /\ ended' = ended + 1
    /\ UNCHANGED <<button, led, ENERGY_THRESHOLD, recFile, recVars,
                   speech_detected, s, playVars, log, sessions, posts, plays,
                   evals, recordings, status, held, fnVars>>

(* lines 215-216 and 218: wait for the release, then poll again *)
DebounceWait ==
    /\ pc = "DebounceWait"
    /\ IF button
       THEN UNCHANGED <<pc, ended>>
       ELSE pc' = "Idle" /\ ended' = ended + 1
    /\ UNCHANGED <<button, led, ENERGY_THRESHOLD, recFile, recVars,
                   speech_detected, s, playVars, log, sessions, posts, plays,
                   evals, recordings, status, held, fnVars>>

Next ==
    \/ ConnectWifi
    \/ ButtonChange
    \/ Poll
    \/ Calibrate
    \/ Open
    \/ CaptureSample
    \/ CaptureTimeUp
    \/ Backpatch
    \/ Analyze
    \/ StorageError
    \/ LedOff
    \/ Decide
    \/ Transmit
    \/ PlayOpen
    \/ PlayFrame
    \/ DebounceWait

Spec == Init /\ [][Next]_vars

----------------------------------------------------------------------------
(* The same program in a quiet room: QuietSessions recordings of silence,  *)
(* then one recording of any kind.  The threshold decays from 500 over the *)
(* silent sessions, down to the subnormal floats.                          *)
QuietRecordings == { <<Signal(32768, 32768, 32768, 32768, 0), Samples52>> }

PollQuiet == PollUpTo(QuietSessions + 1)

CalibrateQuiet ==
    CalibrateFrom(IF sessions <= QuietSessions THEN QuietRecordings ELSE Recordings)

NextQuiet ==
    \/ ConnectWifi
    \/ ButtonChange
    \/ PollQuiet
    \/ CalibrateQuiet
    \/ Open
    \/ CaptureSample
    \/ CaptureTimeUp
    \/ Backpatch
    \/ Analyze
    \/ StorageError
    \/ LedOff
    \/ Decide
    \/ Transmit
    \/ PlayOpen
    \/ PlayFrame
    \/ DebounceWait

SpecQuiet == Init /\ [][NextQuiet]_vars

----------------------------------------------------------------------------
(* The pure computations, applied to arguments drawn from their domains:   *)
(* create_wav_header on sample counts, among them those whose sizes reach  *)
(* the four-byte limit; the duty mapping of play_wav on every signed       *)
(* 16-bit sample; and the energy analysis of record_and_save on pairs of   *)
(* clips under one threshold.                                              *)
HeaderArgs == (0 .. 40) \cup {40000, 1073741823, 1073741824}
                  \cup {2147483647 - k : k \in 0 .. 40}

DutyArgs == -32768 .. 32767

(* A clip as record_and_save leaves it: the header of its count, then the  *)
(* samples.                                                                *)
RECURSIVE Packed(_)
Packed(samples) ==
    IF samples = <<>> THEN <<>>
    ELSE pack_h(Head(samples)) \o Packed(Tail(samples))

ClipFile(samples) == wav_header_bytes(SAMPLE_RATE, Len(samples)) \o Packed(samples)

Run(v, n) == [k \in 1 .. n |-> v]

(* leading windows of ENERGY_WINDOW samples, and what may follow them *)
ClipLeads ==
    { Run(0, ENERGY_WINDOW),
      Run(500, ENERGY_WINDOW),
      Run(724, ENERGY_WINDOW - 1) \o <<14>>,
      Run(-724, ENERGY_WINDOW - 1) \o <<15>> }

ClipTails ==
    { <<>>, <<0, 0>>, <<32767, -32768>>, Run(1000, 10) }

Clips ==
    { ClipFile(l \o tl) : l \in ClipLeads, tl \in ClipTails }
        \cup { ClipFile(<<500, 500>>), ClipFile(<<>>) }

(* thresholds the program reaches: the initial 500; 550 after a clip of    *)
(* avg_energy 1000; 709.80005 after one of 2598; the subnormal that long   *)
(* silence ends in                                                         *)
Thresholds ==
    { FFromInt(INITIAL_ENERGY_THRESHOLD),
      FFromInt(550),
      update_threshold(FFromInt(INITIAL_ENERGY_THRESHOLD), FFromInt(2598)),
      [m |-> 4, e |-> MIN_EXP] }

AnalyzeArgs == [threshold : Thresholds, a : Clips, b : Clips]

InitFn ==
    /\ pc = "Fn"
    /\ button = FALSE
    /\ led = FALSE
    /\ ENERGY_THRESHOLD = FFromInt(INITIAL_ENERGY_THRESHOLD)
    /\ recFile = <<>>
    /\ dc_offset = 0
    /\ sample_count = 0
    /\ elapsed = 0
    /\ mic = NoSignal
    /\ clock = NoClock
    /\ avg_energy = FZero
    /\ speech_detected = FALSE
    /\ s = FALSE
    /\ respFile = <<>>
    /\ rpos = 0
    /\ duty = <<>>
    /\ log = <<>>
    /\ sessions = 0
    /\ posts = 0
    /\ plays = 0
    /\ evals = 0
    /\ recordings = 0
    /\ status = 0
    /\ ended = 0
    /\ rec_open = FALSE
    /\ hdr_writes = 0
    /\ held = FALSE
    /\ arg \in ({"header"} \X HeaderArgs) \cup ({"duty"} \X DutyArgs)
                  \cup ({"analyze"} \X AnalyzeArgs)
    /\ ret = <<"none">>

mainVars == <<pc, button, led, ENERGY_THRESHOLD, recFile, recVars,
              speech_detected, s, playVars, log, countVars, held>>

CallCreateWavHeader ==
    /\ pc = "Fn"
    /\ arg[1] = "header"
    /\ ret = <<"none">>
    /\ \E h \in create_wav_header(SAMPLE_RATE, arg[2]) : ret' = <<"header", h>>
    /\ UNCHANGED <<mainVars, arg>>

CallDuty ==
    /\ pc = "Fn"
    /\ arg[1] = "duty"
    /\ ret = <<"none">>
    /\ ret' = <<"duty", duty_of(arg[2])>>
    /\ UNCHANGED <<mainVars, arg>>

(* the analysis of lines 126-147 on two clips, each from the same threshold *)
CallAnalyze ==
    /\ pc = "Fn"
    /\ arg[1] = "analyze"
    /\ ret = <<"none">>
    /\ ret' = <<"analyze", <<edge_analytics(arg[2].threshold, arg[2].a),
                             edge_analytics(arg[2].threshold, arg[2].b)>>>>
    /\ UNCHANGED <<mainVars, arg>>

NextFn == CallCreateWavHeader \/ CallDuty \/ CallAnalyze

SpecFn == InitFn /\ [][NextFn]_vars

----------------------------------------------------------------------------
(* The states of the session controller, as positions of the program.      *)
RecordingPcs == {"Calibrate", "Open", "Capture", "Backpatch", "Analyze", "Returned"}
PlayingPcs == {"Playing", "PlayLoop"}
BusyPcs == RecordingPcs \cup {"Deciding", "Transmitting"} \cup PlayingPcs

(* record_and_save has returned in the session that is in progress or was  *)
(* the last one: speech_detected is the verdict of that session.           *)
VerdictIsCurrent == sessions >= 1 /\ recordings = sessions

(* The step in which record_and_save analyses the clip and returns. *)
AnalyzeStep == pc = "Analyze" /\ pc' = "Returned"

(* Half of a four-byte field <<hi, lo>>. *)
Half(w) == (w[1] \div 2) * 65536 + ((w[1] % 2) * 65536 + w[2]) \div 2

Field(bytes, first) == from_bytes4(SubSeq(bytes, first, first + 3))

----------------------------------------------------------------------------
(* C1: the transport is invoked only in a session whose recording returned *)
(* speech_detected = true; after a silence verdict the controller is only  *)
(* ever in Deciding, DebounceWait or Idle until the next press, and        *)
(* neither the transport nor play_wav has been invoked in that session.    *)
C1_TransportOnlyOnSpeech ==
    /\ (pc \in {"Transmitting"} \cup PlayingPcs \/ posts > 0 \/ plays > 0)
          => (VerdictIsCurrent /\ speech_detected)
    /\ (VerdictIsCurrent /\ ~speech_detected)
          => (pc \in {"Returned", "Deciding", "DebounceWait", "Idle"}
              /\ posts = 0 /\ plays = 0)

C1_Witness ==
    pc = "DebounceWait" /\ VerdictIsCurrent /\ ~speech_detected
        /\ posts = 0 /\ plays = 0

(* C2: play_wav is started only after the one post of the same session     *)
(* answered status 200 and send_audio_to_server returned true; after any   *)
(* other code or an exception the controller is in DebounceWait (or Idle)  *)
(* without playback, and the post is never repeated.                       *)
C2_PlayOnlyAfter200 ==
    /\ posts <= 1
    /\ (pc \in PlayingPcs \/ plays > 0) => (s /\ posts = 1 /\ status = 200)
    /\ (VerdictIsCurrent /\ speech_detected
            /\ pc \notin {"Returned", "Deciding", "Transmitting"}
            /\ (posts = 0 \/ status # 200))
          => (~s /\ plays = 0 /\ pc \in {"DebounceWait", "Idle"})

C2_Witness ==
    pc = "DebounceWait" /\ posts = 1 /\ status = 201 /\ plays = 0 /\ ~s

(* C3: sessions never overlap: at most one session is open (started and    *)
(* not yet back at the idle poll), a session starts only from the idle     *)
(* poll with the button pressed, and a change of the button while the      *)
(* controller is recording, deciding, transmitting or playing changes      *)
(* nothing but the button.                                                 *)
C3_NoOverlap ==
    /\ [](/\ sessions - ended \in {0, 1}
          /\ (sessions - ended = 1) <=> (pc \notin {"Boot", "Idle"}))
    /\ [][sessions' # sessions
             => (pc = "Idle" /\ button /\ sessions' = sessions + 1)]_vars
    /\ [][(pc \in BusyPcs /\ button' # button)
             => UNCHANGED <<pc, led, ENERGY_THRESHOLD, recFile, recVars,
                            speech_detected, s, playVars, log, countVars>>]_vars
    /\ [][(pc \in BusyPcs)
             => (/\ pc' # "Idle"
                 /\ pc' = "Calibrate" => pc = "Calibrate"
                 /\ ended' = ended)]_vars

C3_Witness ==
    pc = "Capture" /\ sample_count > 0 /\ ~button

(* C4, as claimed: the verdict is avg_energy >= the threshold held before  *)
(* this call's update.                                                     *)
C4_VerdictUsesOldThreshold ==
    [][AnalyzeStep => (speech_detected' = ~FLt(avg_energy', ENERGY_THRESHOLD))]_vars

(* C4, amended: the verdict is avg_energy >= the threshold as updated by   *)
(* this call; with the initial threshold 500, avg_energy = 500 gives       *)
(* speech_detected = true.                                                 *)
C4_VerdictUsesUpdatedThreshold ==
    [][AnalyzeStep =>
         /\ speech_detected' = ~FLt(avg_energy', ENERGY_THRESHOLD')
         /\ (ENERGY_THRESHOLD = FFromInt(500) /\ avg_energy' = FFromInt(500))
               => speech_detected']_vars

C4_Witness ==
    pc = "Returned" /\ evals = 1 /\ avg_energy = FFromInt(500) /\ speech_detected

(* C5: every call of the analyzer replaces the threshold by                *)
(* threshold * (1 - 0.1) + avg_energy * 0.1, on speech and on silence;     *)
(* threshold 500 with avg_energy 1000 becomes exactly 550.                 *)
C5_ThresholdUpdate ==
    [][(AnalyzeStep \/ recordings' # recordings) =>
         /\ evals' = evals + 1
         /\ recordings' = recordings + 1
         /\ ENERGY_THRESHOLD' =
               FAdd(FMul(ENERGY_THRESHOLD, FSub(FFromInt(1), FDivInt(1, 10))),
                    FMul(avg_energy', FDivInt(1, 10)))
         /\ (ENERGY_THRESHOLD = FFromInt(500) /\ avg_energy' = FFromInt(1000))
               => ENERGY_THRESHOLD' = FFromInt(550)]_vars

(* 500 -> 550 by a clip of avg_energy 1000 (speech), then 550 -> 495 by a  *)
(* clip of avg_energy 0 (silence)                                          *)
C5_Witness ==
    pc = "Returned" /\ evals = 2 /\ ~speech_detected /\ avg_energy = FZero
        /\ ENERGY_THRESHOLD = FFromInt(495)

(* C6: once the capture has completed, the sample count the header of      *)
(* rec.wav declares (data_size / 2) is the number of 2-byte frames in the  *)
(* file past offset 44.                                                    *)
CaptureComplete ==
    \/ pc = "Analyze"
    \/ VerdictIsCurrent /\ pc # "Crashed"
    \/ recordings >= 1 /\ pc \in {"Calibrate", "Open"}

C6_TwoPassConsistency ==
    CaptureComplete =>
        /\ Len(recFile) >= HEADER_LEN
        /\ (Len(recFile) - HEADER_LEN) % 2 = 0
        /\ Field(recFile, 41)[2] % 2 = 0
        /\ Half(Field(recFile, 41)) = (Len(recFile) - HEADER_LEN) \div 2

C6_Witness ==
    pc = "Returned" /\ FramesIn(recFile) = 52

(* C7, as claimed: no error ends the main loop. *)
C7_LoopNeverCrashes == pc # "Crashed"

(* C8, as claimed: a clip of n < ENERGY_WINDOW samples has avg_energy =    *)
(* (sum of the absolute values of its samples) / n.                        *)
C8_MeanOverSamplesRead ==
    [][(AnalyzeStep /\ FramesIn(recFile) \in 1 .. (ENERGY_WINDOW - 1))
          => avg_energy' = FDivInt(energy_sum(recFile), FramesIn(recFile))]_vars

(* C9, as claimed: for every sample_count >= 0 the header has 44 bytes,    *)
(* data_size = sample_count * 2, riff_size = 36 + data_size, and there is  *)
(* no error.                                                               *)
HeaderOf(n, h) ==
    /\ h # OverflowError
    /\ Len(h) = HEADER_LEN
    /\ Field(h, 41)[2] % 2 = 0
    /\ Half(Field(h, 41)) = n
    /\ Field(h, 5)[2] % 2 = 0
    /\ Half(Field(h, 5)) - 18 = n

C9_HeaderForEveryCount ==
    (arg[1] = "header" /\ ret[1] = "header") => HeaderOf(arg[2], ret[2])

(* C9, amended: the same for every sample_count from 0 to 2147483629,      *)
(* that is while 36 + data_size is below 2^32.                             *)
C9_HeaderWhileSizesFit ==
    (arg[1] = "header" /\ ret[1] = "header" /\ arg[2] <= 2147483629)
        => HeaderOf(arg[2], ret[2])

C9_Witness ==
    arg = <<"header", 2147483629>> /\ ret[1] = "header"

(* C10, as claimed: duty = round((sample + 32768) / 65535 * 100).  The     *)
(* quotient is never halfway between two integers (65535 is odd).          *)
C10_DutyIsRounded ==
    (arg[1] = "duty" /\ ret[1] = "duty")
        => ret[2] = (200 * (arg[2] + 32768) + 65535) \div 131070

(* C10, amended: duty = floor((sample + 32768) / 65535 * 100); it lies in  *)
(* 0..100, sample -32768 gives 0 and sample 32767 gives 100.               *)
C10_DutyIsTruncated ==
    (arg[1] = "duty" /\ ret[1] = "duty") =>
        /\ ret[2] = (100 * (arg[2] + 32768)) \div 65535
        /\ ret[2] \in 0 .. 100
        /\ (arg[2] = -32768 => ret[2] = 0)
        /\ (arg[2] = 32767 => ret[2] = 100)

C10_Witness ==
    arg = <<"duty", 32767>> /\ ret = <<"duty", 100>>

(* C11: silence gating.  The threshold is above zero at every time, also   *)
(* after any number of silent sessions; a clip whose leading 50 samples    *)
(* are all zero is returned as speech_detected = false; and after a        *)
(* silence verdict the controller goes from Deciding to DebounceWait       *)
(* without a post and without playback.                                    *)
LeadingSilence(f) ==
    /\ FramesIn(f) >= ENERGY_WINDOW
    /\ \A k \in 1 .. ENERGY_WINDOW : unpack_h(Frame(f, k)) = 0

C11_SilenceGating ==
    /\ [](FLt(FZero, ENERGY_THRESHOLD))
    /\ [][(AnalyzeStep /\ LeadingSilence(recFile)) => ~speech_detected']_vars
    /\ [][(pc = "Deciding" /\ ~speech_detected)
             => (pc' \in {"Deciding", "DebounceWait"}
                 /\ posts' = 0 /\ plays' = 0)]_vars

(* after more than a thousand silent sessions the threshold has settled at *)
(* the subnormal 4 * 2^-149, and silence is still gated                    *)
C11_Witness ==
    /\ pc = "DebounceWait"
    /\ evals > 1023
    /\ ENERGY_THRESHOLD = [m |-> 4, e |-> MIN_EXP]
    /\ LeadingSilence(recFile)
    /\ ~speech_detected
    /\ posts = 0

(* C12: the controller leaves DebounceWait for Idle only in a step that    *)
(* reads the button released, Idle is entered from nowhere else once the   *)
(* program has started, and a session never starts while the press that    *)
(* started the previous session is still held: one continuous press        *)
(* starts at most one session.                                             *)
C12_OneSessionPerPress ==
    /\ [](held => button)
    /\ [][(pc # "Idle" /\ pc' = "Idle")
             => (pc \in {"Boot", "DebounceWait"}
                 /\ (pc = "DebounceWait" => ~button /\ ended' = ended + 1))]_vars
    /\ [][sessions' # sessions => (button /\ ~held)]_vars

(* the second session was started by a new press, and that press has been *)
(* held through the whole session into the wait                            *)
C12_Witness ==
    pc = "DebounceWait" /\ sessions = 2 /\ held

(* C13: the threshold is changed by the analysis step alone and once per   *)
(* completed recording: the number of updates equals the number of         *)
(* recordings that returned, the threshold is the initial constant until   *)
(* the first of them, and no step of polling, deciding, transmitting,      *)
(* playing or waiting for the release changes it.                          *)
C13_ThresholdFrame ==
    /\ [](evals = recordings)
    /\ [](evals = 0 => ENERGY_THRESHOLD = FFromInt(INITIAL_ENERGY_THRESHOLD))
    /\ [][(ENERGY_THRESHOLD' # ENERGY_THRESHOLD \/ evals' # evals
              \/ recordings' # recordings)
             => (AnalyzeStep /\ evals' = evals + 1)]_vars
    /\ [][(pc \in {"Idle", "Returned", "Deciding", "Transmitting", "Playing",
                    "PlayLoop", "DebounceWait"})
             => ENERGY_THRESHOLD' = ENERGY_THRESHOLD]_vars

(* two recordings, the second one uploaded and played: two updates *)
C13_Witness ==
    /\ pc = "DebounceWait"
    /\ recordings = 2 /\ evals = 2
    /\ plays = 1 /\ Len(duty) > 0
    /\ ENERGY_THRESHOLD # FFromInt(INITIAL_ENERGY_THRESHOLD)

(* C14, as claimed: the controller has no terminal state; whatever         *)
(* capture, verdict, transport and playback do, a session that has started *)
(* goes on to DebounceWait.  Stated on steps: every step taken during a    *)
(* session leads to a state of the session or to DebounceWait, never out   *)
(* of the loop.                                                            *)
C14_SessionGoesOnToDebounceWait ==
    [][(pc \in BusyPcs) => (pc' \in BusyPcs \cup {"DebounceWait"})]_vars

(* C15: play_wav on a response that ends with an odd byte behind the       *)
(* 44-byte header.                                                         *)
OddTail(f) == Len(f) > HEADER_LEN /\ (Len(f) - HEADER_LEN) % 2 = 1

(* play_wav of this session has read response.wav to its end *)
PlayedToEnd ==
    pc = "DebounceWait" /\ plays = 1 /\ rpos = Len(respFile)

Reported(msg) == \E i \in 1 .. Len(log) : log[i] = msg

(* the duty values of the first n frames of f *)
Rendered(f, n) ==
    [k \in 1 .. n |-> duty_of(unpack_h(Frame(f, k)))]

(* C15, as claimed: every complete frame is rendered and the partial frame *)
(* is dropped without any error being raised or reported.                  *)
C15_PartialFrameDroppedSilently ==
    (PlayedToEnd /\ OddTail(respFile))
        => (duty = Rendered(respFile, FramesIn(respFile))
            /\ ~Reported("Playback error"))

(* C15, amended: every complete frame before the odd byte is rendered, in  *)
(* order; reading the partial frame renders nothing and raises an error    *)
(* that play_wav catches and reports as "Playback error"; the controller   *)
(* continues to DebounceWait.                                              *)
C15_PartialFrameReported ==
    /\ []((PlayedToEnd /\ OddTail(respFile))
            => (duty = Rendered(respFile, FramesIn(respFile))
                /\ log[Len(log)] = "Playback error"))
    /\ []((pc = "PlayLoop")
            => (rpos = HEADER_LEN + 2 * Len(duty)
                /\ duty = Rendered(respFile, Len(duty))))
    /\ [][(pc = "PlayLoop" /\ Len(respFile) - rpos = 1 /\ button' = button)
             => (pc' = "DebounceWait" /\ duty' = duty
                 /\ log' = Append(log, "Playback error"))]_vars

C15_Witness ==
    /\ PlayedToEnd /\ OddTail(respFile)
    /\ duty = <<duty_of(-32440)>>
    /\ Reported("Playback error")

(* C16, as claimed: every sample the capture loop is about to pack, a      *)
(* reading minus the integer mean of the 100 calibration readings, lies in *)
(* the signed 16-bit range.                                                *)
C16_SampleFitsInt16 ==
    (pc = "Capture" /\ elapsed < RECORD_DURATION * 1000)
        => InInt16(read_u16(mic, sample_count) - dc_offset)

(* C17: the two-phase header write.  The header region of rec.wav and what *)
(* it declares:                                                            *)
Header(f) == SubSeq(f, 1, Min(HEADER_LEN, Len(f)))

DeclaresNoData(f) ==
    /\ Len(f) >= HEADER_LEN
    /\ Field(f, 41) = <<0, 0>>
    /\ Field(f, 5) = <<0, 36>>

(* C17: in every capture the placeholder header (no data) is written at    *)
(* offset 0 before any sample; while samples are appended, and until the   *)
(* last one has been written, the header keeps declaring zero data length; *)
(* the header is overwritten once, after the last sample, with the true    *)
(* count, and nothing is appended afterwards.                              *)
C17_TwoPhaseHeader ==
    /\ [](pc \in {"Capture", "Backpatch"}
            => (/\ hdr_writes = 1
                /\ DeclaresNoData(recFile)
                /\ Len(recFile) = HEADER_LEN + 2 * sample_count))
    /\ [][Header(recFile') # Header(recFile) => hdr_writes' # hdr_writes]_vars
    /\ [][hdr_writes' # hdr_writes =>
             \/ /\ pc = "Open" /\ pc' = "Capture"
                /\ hdr_writes' = 1
                /\ Len(recFile') = HEADER_LEN
             \/ /\ pc = "Backpatch" /\ pc' = "Analyze"
                /\ hdr_writes' = 2
                /\ Len(recFile') = Len(recFile)
                /\ Half(Field(recFile', 41)) = sample_count]_vars
    /\ [][(hdr_writes = 2 /\ pc # "Open") => recFile' = recFile]_vars

(* all 52 samples are in the file and the header still declares none *)
C17_Witness ==
    /\ pc = "Backpatch"
    /\ sample_count = 52
    /\ FramesIn(recFile) = 52
    /\ DeclaresNoData(recFile)

(* C18: the analyzer looks at the leading window only.  Two clips whose    *)
(* first ENERGY_WINDOW samples behind the 44-byte header are equal get,    *)
(* from the same threshold, the same verdict and the same new threshold,   *)
(* whatever follows the window.                                            *)
SameWindow(a, b) ==
    /\ FramesIn(a) >= ENERGY_WINDOW
    /\ FramesIn(b) >= ENERGY_WINDOW
    /\ \A k \in 1 .. ENERGY_WINDOW : Frame(a, k) = Frame(b, k)

C18_OnlyLeadingWindow ==
    (arg[1] = "analyze" /\ ret[1] = "analyze" /\ SameWindow(arg[2].a, arg[2].b))
        => (/\ ret[2][1].speech = ret[2][2].speech
            /\ ret[2][1].threshold = ret[2][2].threshold)

(* silence in the window of both clips, loud samples behind it in one of   *)
(* them: both are returned as silence                                      *)
C18_Witness ==
    /\ arg[1] = "analyze" /\ ret[1] = "analyze"
    /\ arg[2].a = ClipFile(Run(0, ENERGY_WINDOW))
    /\ arg[2].b = ClipFile(Run(0, ENERGY_WINDOW) \o Run(1000, 10))
    /\ ~ret[2][1].speech /\ ~ret[2][2].speech

(* C19, as claimed: the LED is on exactly while the controller is in       *)
(* Recording (taken here up to the return of record_and_save), and off in  *)
(* Idle, Deciding, Transmitting, Playing and DebounceWait.                 *)
C19_LedOnExactlyWhileRecording ==
    (pc \in {"Idle", "DebounceWait"} \cup BusyPcs) => (led <=> pc \in RecordingPcs)

(* C19, amended: the LED is turned on at the step from Idle into Recording *)
(* and turned off when record_and_save has returned, after the energy      *)
(* analysis inside it; it is on throughout Recording, off in Deciding,     *)
(* Transmitting, Playing and DebounceWait, and off in Idle once a session  *)
(* has been through.  In Idle before the first session it is as            *)
(* connect_wifi left it, on or off, and polling does not change it.        *)
C19_LedFollowsRecording ==
    /\ []((pc \in RecordingPcs) => led)
    /\ []((pc \in {"Deciding", "Transmitting", "DebounceWait"} \cup PlayingPcs) => ~led)
    /\ []((pc = "Idle" /\ sessions >= 1) => ~led)
    /\ [][led' # led =>
             \/ pc = "Boot"
             \/ pc = "Idle" /\ pc' = "Calibrate" /\ led'
             \/ pc = "Returned" /\ pc' = "Deciding" /\ ~led']_vars

(* a whole session has been through: the LED went on and is off again *)
C19_Witness ==
    pc = "Idle" /\ ended = 1 /\ recordings = 1 /\ ~led

(* C20: the readers of rec.wav see the final header.  The energy analysis  *)
(* starts only after the header has been rewritten with the final sample   *)
(* count; the upload starts only after that and after the handle of        *)
(* record_and_save has been closed; neither sees a header that declares no *)
(* data over a capture that holds samples.                                 *)
FinalHeader(f) ==
    /\ Len(f) >= HEADER_LEN
    /\ from_bytes4(SubSeq(f, 41, 44)) = data_size(FramesIn(f))
    /\ from_bytes4(SubSeq(f, 5, 8)) = riff_size(FramesIn(f))
    /\ FramesIn(f) > 0 => ~DeclaresNoData(f)

C20_ReadersSeeFinalHeader ==
    /\ []((pc = "Analyze")
            => (rec_open /\ hdr_writes = 2 /\ FinalHeader(recFile)))
    /\ []((pc = "Transmitting")
            => (~rec_open /\ hdr_writes = 2 /\ FinalHeader(recFile)
                /\ recordings = sessions))
    /\ [][posts' > posts
             => (pc = "Transmitting" /\ ~rec_open /\ recFile' = recFile)]_vars
    /\ [][(rec_open /\ ~rec_open' /\ pc' # "Crashed") => AnalyzeStep]_vars

(* the clip of 52 samples is about to be uploaded *)
C20_Witness ==
    /\ pc = "Transmitting"
    /\ FramesIn(recFile) = 52
    /\ ~rec_open /\ hdr_writes = 2
    /\ ~DeclaresNoData(recFile)

====
